---- MODULE Spec2Model ----
(***************************************************************************)
(* A model of the document assistant: RAGModel (app/models/rag_model.py),  *)
(* its collaborators DocumentProcessor and VectorStoreManager (app/utils), *)
(* its subclass ChatRAGModel (app/models/chat_model.py), and the           *)
(* comparison-mode handlers of the Streamlit script (app/main.py).         *)
(*                                                                         *)
(* Python strings are modelled as sequences of string tokens: a file name  *)
(* is <<"a", " ", "b", ".pdf">>, a text is the sequence of its words (the   *)
(* blank text is <<>>), str concatenation is \o.  An exception is a value   *)
(* [raised |-> TRUE, exc |-> message] handed up by the callee; try/except  *)
(* is the test of that flag.                                               *)
(***************************************************************************)
EXTENDS Integers, Sequences, FiniteSets, TLC

VARIABLES
    documents,           \* RAGModel.documents: doc_id -> document info
    vector_store,        \* RAGModel.vector_store_manager.vector_store
    document_stats,      \* RAGModel.document_stats ({} is the empty dict)
    chat_histories,      \* RAGModel.chat_histories: session id -> messages
    uploaded_files,      \* comparison_uploader widget: the files uploaded
    comparison_files,    \* st.session_state.comparison_files
    last_uploaded_files, \* st.session_state.last_uploaded_files
    processing_complete, \* st.session_state.processing_complete
    last_processed_files, \* history: the names of the last completed run
    comparison_results,  \* st.session_state.comparison_results
    structured_data,     \* st.session_state.structured_data
    recommendation,      \* st.session_state.recommendation
    conversation_memories, \* ChatRAGModel.conversation_memories
    retrieval_chain,     \* ChatRAGModel.retrieval_chain, an attribute
    ret,                 \* the last operation: its name, arguments, outcome
    calls                \* the collaborator calls the last operation made

vars == <<documents, vector_store, document_stats, chat_histories,
          uploaded_files, comparison_files, last_uploaded_files,
          processing_complete, last_processed_files, comparison_results,
          structured_data, recommendation, conversation_memories,
          retrieval_chain, ret, calls>>

modelVars == <<documents, vector_store, document_stats, chat_histories>>
uiVars == <<uploaded_files, comparison_files, last_uploaded_files,
            processing_complete, last_processed_files>>
tabVars == <<comparison_results, structured_data, recommendation>>
chatVars == <<conversation_memories, retrieval_chain>>

----------------------------------------------------------------------------
(* Bounds of the model. *)

MaxExchanges == 2      \* question/answer pairs kept per session
MaxPaths == 3          \* file paths in one process_multiple_documents call
MaxDocIds == 2         \* doc ids in one compare / recommendation call
MaxUploads == 4        \* files held by the uploader widget
MaxBad == 1            \* how far into a comparison a failure may lie

----------------------------------------------------------------------------
(* Python values. *)

Raise(cls, msg) == [raised |-> TRUE, cls |-> cls, exc |-> msg, val |-> <<>>]
Return(v) == [raised |-> FALSE, cls |-> "", exc |-> <<>>, val |-> v]

\* a slip: the handler names one exception class
except_ValueError(out) == out.raised /\ out.cls = "ValueError"

\* "except Exception": every exception class of the model derives from it
except_Exception(out) == out.raised

\* "except json.JSONDecodeError"
except_JSONDecodeError(out) == out.raised /\ out.cls = "JSONDecodeError"

Min(a, b) == IF a <= b THEN a ELSE b

Take(s, n) == SubSeq(s, 1, Min(n, Len(s)))

Reverse(s) == [i \in 1..Len(s) |-> s[Len(s) + 1 - i]]

RECURSIVE Flatten(_)
Flatten(ss) == IF ss = <<>> THEN <<>> ELSE Head(ss) \o Flatten(Tail(ss))

\* sep.join(parts)
RECURSIVE Join(_, _)
Join(parts, sep) ==
    IF parts = <<>> THEN <<>>
    ELSE IF Len(parts) = 1 THEN Head(parts)
    ELSE Head(parts) \o sep \o Join(Tail(parts), sep)

IsBlank(t) == t = <<>>          \* not text.strip()

\* [c for c in chunks if c.page_content.strip()]
RECURSIVE NonBlankOnly(_)
NonBlankOnly(s) ==
    IF s = <<>> THEN <<>>
    ELSE (IF IsBlank(Head(s)) THEN <<>> ELSE <<Head(s)>>) \o NonBlankOnly(Tail(s))

\* s.replace(old, new) on tokens
RECURSIVE Replace(_, _, _)
Replace(s, old, new) ==
    IF s = <<>> THEN <<>>
    ELSE (IF Head(s) = old THEN new ELSE <<Head(s)>>) \o Replace(Tail(s), old, new)

\* the position of the last "/" of a path, 0 when there is none
RECURSIVE LastSlash(_, _)
LastSlash(p, i) == IF i = 0 THEN 0 ELSE IF p[i] = "/" THEN i ELSE LastSlash(p, i - 1)

\* os.path.basename
basename(p) == SubSeq(p, LastSlash(p, Len(p)) + 1, Len(p))

\* the words of the model's texts and their lengths in characters
Words == {"ab", "cde", "big"}
CharLen(w) == CASE w = "ab" -> 2 [] w = "cde" -> 3 [] w = "big" -> 250 [] OTHER -> 1

\* len(text) of a text whose words are separated by single blanks
RECURSIVE NumChars(_)
NumChars(t) ==
    IF t = <<>> THEN 0
    ELSE IF Len(t) = 1 THEN CharLen(t[1])
    ELSE CharLen(t[1]) + 1 + NumChars(Tail(t))

\* text[:n]: the words that fit whole, then a marker for a word cut in two
RECURSIVE Slice(_, _)
Slice(t, n) ==
    IF t = <<>> \/ n <= 0 THEN <<>>
    ELSE IF CharLen(t[1]) > n THEN <<"(cut)">>
    ELSE <<t[1]>> \o Slice(Tail(t), n - CharLen(t[1]) - 1)

\* f"{n:,}"
RECURSIVE FormatThousands(_)
FormatThousands(n) ==
    IF n < 1000 THEN <<ToString(n)>>
    ELSE FormatThousands(n \div 1000) \o <<",">>
         \o <<IF n % 1000 < 10 THEN "00" ELSE IF n % 1000 < 100 THEN "0" ELSE "">>
         \o <<ToString(n % 1000)>>

----------------------------------------------------------------------------
(* The outside world: the PDF files an operation may meet.  A file is what *)
(* PyPDFLoader makes of it (pages) and what the splitter makes of its      *)
(* pages (split).                                                          *)

PdfMissing == [exists |-> FALSE, loads |-> FALSE, pages |-> <<>>, split |-> <<>>]
PdfCorrupt == [exists |-> TRUE, loads |-> FALSE, pages |-> <<>>, split |-> <<>>]
PdfNoPages == [exists |-> TRUE, loads |-> TRUE, pages |-> <<>>, split |-> <<>>]
PdfScanned == [exists |-> TRUE, loads |-> TRUE, pages |-> << <<>> >>, split |-> <<>>]
PdfNoChunks == [exists |-> TRUE, loads |-> TRUE, pages |-> << <<"ab">> >>,
                split |-> << <<>> >>]
PdfA == [exists |-> TRUE, loads |-> TRUE, pages |-> << <<"ab", "cde">> >>,
         split |-> << <<"ab">>, <<>>, <<"cde">> >>]
PdfB == [exists |-> TRUE, loads |-> TRUE,
         pages |-> << <<"big", "ab">>, <<"ab", "cde", "ab">> >>,
         split |-> << <<"big">>, <<"ab">>, <<"ab">>, <<"cde", "ab">> >>]

Pdfs == {PdfMissing, PdfCorrupt, PdfNoPages, PdfScanned, PdfNoChunks, PdfA, PdfB}

FileNames == { <<"a", " ", "b", ".pdf">>, <<"a", "_", "b", ".pdf">>, <<"c", ".pdf">> }
TempDir == <<"/", "tmp">>
PathOf(name) == TempDir \o <<"/">> \o name        \* os.path.join(temp_dir, name)
Paths == {PathOf(n) : n \in FileNames}

Sessions == {"s1", "s2"}

----------------------------------------------------------------------------
(* DocumentProcessor.load_pdf *)

load_pdf(pdf) ==
    LET body ==
            IF ~pdf.exists THEN Raise("FileNotFoundError", <<"PDF file not found">>)
            ELSE IF ~pdf.loads THEN Raise("PdfReadError", <<"loader failed">>)
            ELSE IF pdf.pages = <<>> THEN Raise("ValueError", <<"PDF loaded but contains no pages">>)
            ELSE IF IsBlank(Flatten(pdf.pages))
                 THEN Raise("ValueError", <<"PDF contains no extractable text">>)
            ELSE LET chunks == NonBlankOnly(pdf.split)
                 IN  IF chunks = <<>>
                     THEN Raise("ValueError", <<"Document splitting produced no valid chunks">>)
                     ELSE Return(chunks)
    IN  IF except_Exception(body)
        THEN Raise("Exception", <<"Error processing PDF: ">> \o body.exc)
        ELSE body

(* VectorStoreManager *)

NoStore == [init |-> FALSE, docs |-> <<>>]

\* create_vector_store: the new store, or the exception; embedOk is whether
\* the embedding model and FAISS do their work
create_vector_store(chunks, embedOk) ==
    LET body ==
            IF chunks = <<>>
            THEN Raise("ValueError", <<"Cannot create vector store with empty document list">>)
            ELSE LET valid_docs == NonBlankOnly(chunks)
                 IN  IF valid_docs = <<>>
                     THEN Raise("ValueError", <<"No valid documents with content found">>)
                     ELSE IF ~embedOk THEN Raise("RuntimeError", <<"embedding failed">>)
                     ELSE Return([init |-> TRUE, docs |-> valid_docs])
    IN  IF except_Exception(body)
        THEN Raise("Exception", <<"Error creating vector store: ">> \o body.exc)
        ELSE body

\* similarity_search: outcome "raise" is a failure of the library, "fwd" and
\* "rev" are two rankings the library may return
SearchOutcomes == {"raise", "fwd", "rev"}

similarity_search(store, query, k, outcome) ==
    IF ~store.init THEN Raise("Exception", <<"Vector store not initialized">>)
    ELSE IF outcome = "raise" THEN Raise("RuntimeError", <<"search failed">>)
    ELSE Return(Take(IF outcome = "rev" THEN Reverse(store.docs) ELSE store.docs, k))

----------------------------------------------------------------------------
(* The Groq client.  A call either raises or returns a ChatCompletion      *)
(* whose choices is a list of Choice objects.  Python objects carry their  *)
(* type, so that attribute access and indexing are decided by it.          *)

PyList(items) == [type |-> "list", items |-> items, attrs |-> <<>>]
PyObject(type, attrs) == [type |-> type, items |-> <<>>, attrs |-> attrs]

ChatCompletion(content) ==
    PyObject("ChatCompletion",
        [choices |-> PyList(<< PyObject("Choice",
            [message |-> PyObject("ChatCompletionMessage", [content |-> content])]) >>)])

\* groq_client.chat.completions.create: outcome is "raise" or the content
groq_create(outcome) ==
    IF outcome = <<"raise">> THEN Raise("APIError", <<"groq request failed">>)
    ELSE Return(ChatCompletion(outcome))

\* response.choices[0].message.content
first_choice_content(response) ==
    Return(response.attrs.choices.items[1].attrs.message.attrs.content)

\* response.choices.message.content: choices is a list, which has no
\* attribute "message"
choices_message_content(response) ==
    IF response.attrs.choices.type = "list"
    THEN Raise("AttributeError", <<"'list' object has no attribute 'message'">>)
    ELSE Return(response.attrs.choices.attrs.message.attrs.content)

Whitespace == {" ", "\n"}

\* str.strip()
RECURSIVE LStrip(_)
LStrip(t) == IF t # <<>> /\ Head(t) \in Whitespace THEN LStrip(Tail(t)) ELSE t
Strip(t) == Reverse(LStrip(Reverse(LStrip(t))))

\* a collaborator call as the operation made it, with what came back
Event(fn, target, arg, k, res) ==
    [fn |-> fn, target |-> target, arg |-> arg, k |-> k,
     ok |-> ~res.raised, out |-> res.val, exc |-> res.exc]

----------------------------------------------------------------------------
(* RAGModel: single-document question answering. *)

\* the messages stored for a session, <<>> when it has none
History(histories, session_id) ==
    IF session_id \in DOMAIN histories THEN histories[session_id] ELSE <<>>

\* a slip: the dict is rebuilt when a new session arrives
get_session_history_rebuilt(histories, session_id) ==
    IF session_id \notin DOMAIN histories
    THEN [t \in {session_id} |-> <<>>]
    ELSE histories

\* get_session_history: the histories once the session's list exists
get_session_history(histories, session_id) ==
    IF session_id \notin DOMAIN histories
    THEN [t \in DOMAIN histories \cup {session_id} |->
             IF t = session_id THEN <<>> ELSE histories[t]]
    ELSE histories

\* history.append(user message); history.append(assistant message)
append_exchange(histories, session_id, question, answer) ==
    LET h == get_session_history(histories, session_id)
    IN  [h EXCEPT ![session_id] = @ \o << [role |-> "user", content |-> question],
                                           [role |-> "assistant", content |-> answer] >>]

\* process_document: the value returned and the fields as the call leaves them
process_document(vs, stats, file_path, pdf, embedOk) ==
    LET loaded == load_pdf(pdf)
        chunks == NonBlankOnly(loaded.val)
        total_text == Flatten(chunks)
        new_stats == {[filename |-> basename(file_path),
                       total_words |-> Len(total_text),
                       total_characters |-> NumChars(total_text),
                       total_chunks |-> Len(chunks)]}
        created == create_vector_store(chunks, embedOk)
        done == <<"Processed ">> \o basename(file_path)
                \o <<ToString(Len(chunks)), " chunks | ">>
                \o FormatThousands(Len(total_text)) \o <<" words">>
        body ==
            IF loaded.raised THEN [out |-> loaded, vs |-> vs, stats |-> stats]
            ELSE IF loaded.val = <<>>
                 THEN [out |-> Raise("ValueError", <<"No text extracted from PDF">>),
                       vs |-> vs, stats |-> stats]
            ELSE IF chunks = <<>>
                 THEN [out |-> Raise("ValueError", <<"No readable text after processing">>),
                       vs |-> vs, stats |-> stats]
            ELSE IF created.raised THEN [out |-> created, vs |-> vs, stats |-> new_stats]
            ELSE [out |-> Return(done), vs |-> created.val, stats |-> new_stats]
        result == IF except_Exception(body.out)
                  THEN Return(<<"Error: ">> \o body.out.exc)
                  ELSE body.out
    IN  [raised |-> result.raised, val |-> result.val,
         vector_store |-> body.vs, document_stats |-> body.stats]

Lower(tok) ==
    CASE tok = "How Many Words" -> "how many words"
      [] tok = "Page Count" -> "page count"
      [] OTHER -> tok

StatsKeywords == {"how many words", "word count", "total words", "page count",
                  "document size"}

\* a slip: the question is not lowered before the keywords are looked for
IsStatsQuestion_as_typed(question) ==
    \E i \in 1..Len(Strip(question)) : Strip(question)[i] \in StatsKeywords

\* any(kw in question.lower().strip() for kw in [...])
IsStatsQuestion(question) ==
    \E i \in 1..Len(Strip(question)) : Lower(Strip(question)[i]) \in StatsKeywords

AnswerPrefixes == <<"Answer:", "Response:", "A:">>

\* for prefix in [...]: if answer.startswith(prefix): cut it, strip, break
clean_answer(answer) ==
    IF answer # <<>> /\ \E i \in 1..Len(AnswerPrefixes) : Head(answer) = AnswerPrefixes[i]
    THEN Strip(Tail(answer))
    ELSE answer

PleaseUpload == <<"Please upload and process a document first.">>

stats_answer(s) ==
    <<"Document Statistics:", "File: ">> \o s.filename
    \o <<"Total Words: ">> \o FormatThousands(s.total_words)
    \o <<"Characters: ">> \o FormatThousands(s.total_characters)
    \o <<"Chunks: ", ToString(s.total_chunks)>>

qa_prompt(context, question) ==
    <<"Context:">> \o context \o <<"Question: ">> \o question \o <<"Answer:">>

\* a slip: the guard is missing
store_ready_always(vs) == TRUE

\* "if not self.vector_store_manager.vector_store" is the negation of this
store_ready(vs) == vs.init

\* the chunks without their repetitions
RECURSIVE Dedup(_)
Dedup(docs) ==
    IF docs = <<>> THEN <<>>
    ELSE LET rest == Dedup(SubSeq(docs, 1, Len(docs) - 1))
             last == docs[Len(docs)]
         IN  IF \E i \in 1..Len(rest) : rest[i] = last THEN rest ELSE Append(rest, last)

\* a slip: the search results are deduplicated on their way to the prompt
build_context_dedup(relevant_docs) == Join(Dedup(relevant_docs), <<"\n\n">>)

\* "\n\n".join([doc.page_content for doc in relevant_docs])
build_context(relevant_docs) == Join(relevant_docs, <<"\n\n">>)

\* ask_question: the value returned, the calls made, the histories afterwards
ask_question(vs, stats, histories, question, session_id, searchOutcome, llmOutcome) ==
    IF ~store_ready(vs)
    THEN [raised |-> FALSE,
          val |-> [answer |-> PleaseUpload, sources |-> <<>>, session_id |-> session_id],
          calls |-> <<>>, chat_histories |-> histories]
    ELSE IF IsStatsQuestion(question) /\ stats # {}
    THEN LET answer == stats_answer(CHOOSE s \in stats : TRUE)
         IN  [raised |-> FALSE,
              val |-> [answer |-> answer, sources |-> << <<"Calculated from document">> >>,
                       session_id |-> session_id],
              calls |-> << Event("history_append", <<session_id>>, question, 0, Return(answer)) >>,
              chat_histories |-> append_exchange(histories, session_id, question, answer)]
    ELSE LET found == similarity_search(vs, question, 6, searchOutcome)
             relevant_docs == found.val
             context == build_context(relevant_docs)
             prompt == qa_prompt(context, question)
             response == groq_create(llmOutcome)
             content == first_choice_content(response.val)
             answer == clean_answer(Strip(content.val))
             sources == [i \in 1..Len(Take(relevant_docs, 3)) |->
                            Slice(relevant_docs[i], 200) \o <<"...">>]
             searched == Event("similarity_search", <<"main">>, question, 6, found)
             asked == Event("llm", <<"groq">>, prompt, 0,
                            IF response.raised THEN response ELSE content)
             appended == Event("history_append", <<session_id>>, question, 0, Return(answer))
             body ==
                 IF found.raised
                 THEN [out |-> found, calls |-> <<searched>>, h |-> histories]
                 ELSE IF response.raised
                 THEN [out |-> response, calls |-> <<searched, asked>>, h |-> histories]
                 ELSE [out |-> Return([answer |-> answer, sources |-> sources,
                                       session_id |-> session_id]),
                       calls |-> <<searched, asked, appended>>,
                       h |-> append_exchange(histories, session_id, question, answer)]
             result == IF except_Exception(body.out)
                       THEN Return([answer |-> <<"Error: ">> \o body.out.exc,
                                    sources |-> <<>>, session_id |-> session_id])
                       ELSE body.out
         IN  [raised |-> result.raised, val |-> result.val,
              calls |-> body.calls, chat_histories |-> body.h]

\* a slip: the session is deleted, not emptied
clear_chat_history_del(histories, session_id) ==
    IF session_id \in DOMAIN histories
    THEN [val |-> <<"Chat history cleared for session: ", session_id>>,
          chat_histories |-> [t \in DOMAIN histories \ {session_id} |-> histories[t]]]
    ELSE [val |-> <<"No chat history found for session: ", session_id>>,
          chat_histories |-> histories]

\* clear_chat_history
clear_chat_history(histories, session_id) ==
    IF session_id \in DOMAIN histories
    THEN [val |-> <<"Chat history cleared for session: ", session_id>>,
          chat_histories |-> [histories EXCEPT ![session_id] = <<>>]]
    ELSE [val |-> <<"No chat history found for session: ", session_id>>,
          chat_histories |-> histories]

\* list_active_sessions
list_active_sessions(histories) == DOMAIN histories

----------------------------------------------------------------------------
(* RAGModel: the comparison methods. *)

PyNone == [type |-> "NoneType", items |-> <<>>, attrs |-> <<>>]

\* an attribute no statement has assigned yet: reading it raises
\* AttributeError
Unset == [type |-> "(unset)", items |-> <<>>, attrs |-> <<>>]

\* a slip: the test is "is None"
is_None(v) == v.type = "NoneType"

\* "not value" for None and for lists
Falsy(v) == v.type = "NoneType" \/ (v.type = "list" /\ v.items = <<>>)

\* a dict that remembers the order its keys were first set in
EmptyDict == [keys |-> <<>>, map |-> <<>>]
DictPut(d, key, value) ==
    [keys |-> IF key \in DOMAIN d.map THEN d.keys ELSE Append(d.keys, key),
     map |-> [x \in DOMAIN d.map \cup {key} |-> IF x = key THEN value ELSE d.map[x]]]

\* os.path.basename(file_path).replace('.pdf', '').replace(' ', '_')
doc_id_of(file_path) == Replace(Replace(basename(file_path), ".pdf", <<>>), " ", <<"_">>)

\* one pass of the loop of process_multiple_documents
process_one_file(docs, results, file_path, pdf, embedOk) ==
    LET doc_id == doc_id_of(file_path)
        loaded == load_pdf(pdf)
        chunks == NonBlankOnly(loaded.val)
        total_text == Flatten(chunks)
        created == create_vector_store(chunks, embedOk)
        info == [filename |-> basename(file_path),
                 chunks |-> chunks,
                 total_text |-> total_text,
                 stats |-> [total_words |-> Len(total_text),
                            total_characters |-> NumChars(total_text),
                            total_chunks |-> Len(chunks)],
                 vector_store |-> created.val]
        stored == [x \in DOMAIN docs \cup {doc_id} |-> IF x = doc_id THEN info ELSE docs[x]]
        body ==
            IF loaded.raised THEN [out |-> loaded, docs |-> docs, results |-> results]
            ELSE IF loaded.val = <<>>
                 THEN [out |-> Return(<<>>), docs |-> docs,
                       results |-> DictPut(results, doc_id,
                           [status |-> "error", error |-> <<"No text extracted">>])]
            ELSE IF chunks = <<>>
                 THEN [out |-> Return(<<>>), docs |-> docs,
                       results |-> DictPut(results, doc_id,
                           [status |-> "error", error |-> <<"No readable text">>])]
            ELSE IF created.raised
                 THEN [out |-> created, docs |-> docs, results |-> results]
            ELSE [out |-> Return(<<>>), docs |-> stored,
                  results |-> DictPut(results, doc_id,
                      [status |-> "success", filename |-> basename(file_path),
                       stats |-> stored[doc_id].stats])]
    IN  IF except_Exception(body.out)
        THEN [raised |-> FALSE, docs |-> body.docs,
              results |-> DictPut(body.results, doc_id,
                  [status |-> "error", error |-> body.out.exc])]
        ELSE [raised |-> body.out.raised, docs |-> body.docs, results |-> body.results]

\* process_multiple_documents: disk gives the file behind each path, embedBad
\* is the position of the file whose embedding fails (0: none fails)
RECURSIVE process_files(_, _, _, _, _, _)
process_files(docs, results, file_paths, idx, disk, embedBad) ==
    IF idx > Len(file_paths)
    THEN [raised |-> FALSE, val |-> results, documents |-> docs]
    ELSE LET one == process_one_file(docs, results, file_paths[idx],
                                     disk[file_paths[idx]], idx # embedBad)
         IN  IF one.raised
             THEN [raised |-> TRUE, val |-> results, documents |-> one.docs]
             ELSE process_files(one.docs, one.results, file_paths, idx + 1, disk, embedBad)

process_multiple_documents(docs, file_paths, disk, embedBad) ==
    process_files(docs, EmptyDict, file_paths, 1, disk, embedBad)

DefaultAspects == <<"skills and technologies", "work experience and roles",
                    "education and certifications", "key achievements",
                    "overall strengths", "potential areas for growth">>

\* the hosted model answers a prompt with a text about that prompt
llm_reply(prompt) == <<" ", "re:">> \o prompt \o <<"\n">>

compare_prompt(aspect, context) ==
    <<"Analyze this document section and extract information about ", aspect,
      "Document section:">> \o Slice(context, 1500)
    \o <<"Extract information about ", aspect>>

\* the try block of compare_documents for one aspect and one stored document
compare_entry(info, aspect, searchBad, llmBad) ==
    LET query == <<"information about ", aspect>>
        found == similarity_search(info.vector_store, query, 3,
                                   IF searchBad THEN "raise" ELSE "rev")
        context == Join(found.val, <<"\n">>)
        prompt == compare_prompt(aspect, context)
        response == groq_create(IF llmBad THEN <<"raise">> ELSE llm_reply(prompt))
        content == first_choice_content(response.val)
        searched == Event("similarity_search", <<info.filename>>, query, 3, found)
        asked == Event("llm", <<"groq">>, prompt, 0,
                       IF response.raised THEN response ELSE content)
        body ==
            IF found.raised THEN [out |-> found, calls |-> <<searched>>]
            ELSE IF response.raised THEN [out |-> response, calls |-> <<searched, asked>>]
            ELSE [out |-> Return(Strip(content.val)), calls |-> <<searched, asked>>]
    IN  [out |-> IF except_Exception(body.out)
                 THEN Return(<<"Error: ">> \o body.out.exc)
                 ELSE body.out,
         calls |-> body.calls]

\* the last position of x in the sequence q
LastIndex(q, x) == CHOOSE i \in 1..Len(q) : q[i] = x /\ \A j \in (i + 1)..Len(q) : q[j] # x

\* the keys of a dict filled by assigning q[1], q[2], ... in turn
RECURSIVE FirstOccurrences(_)
FirstOccurrences(q) ==
    IF q = <<>> THEN <<>>
    ELSE LET before == FirstOccurrences(SubSeq(q, 1, Len(q) - 1))
         IN  IF \E i \in 1..Len(before) : before[i] = q[Len(q)]
             THEN before ELSE Append(before, q[Len(q)])

\* "if not comparison_aspects: comparison_aspects = [...]"
aspects_of(comparison_aspects) ==
    IF Falsy(comparison_aspects) THEN DefaultAspects ELSE comparison_aspects.items

\* The two loops of compare_documents visit the pairs (aspect a, doc id d)
\* in order; this is what the loop body does at each pair.  The oracle names
\* the pair whose search (searchBad) and whose model call (llmBad) fails by
\* the count of stored documents met up to it; 0 names none.
compare_visits(docs, doc_ids, aspects, oracle) ==
    LET stored == {d \in 1..Len(doc_ids) : doc_ids[d] \in DOMAIN docs}
        met(a, d) == (a - 1) * Cardinality(stored)
                     + Cardinality({i \in stored : i <= d})
    IN  [a \in 1..Len(aspects) |-> [d \in 1..Len(doc_ids) |->
            IF d \notin stored
            THEN [out |-> Return(<<"Document not found">>), calls |-> <<>>]
            ELSE compare_entry(docs[doc_ids[d]], aspects[a],
                               met(a, d) = oracle.searchBad,
                               met(a, d) = oracle.llmBad)]]

\* comparison_results as the loops leave it: "comparison_results[aspect] =
\* {}" and "comparison_results[aspect][doc_id] = ..." keep the last
\* assignment to a key
compare_results(doc_ids, aspects, vis) ==
    [raised |-> \E a \in 1..Len(aspects), d \in 1..Len(doc_ids) : vis[a][d].out.raised,
     val |-> [keys |-> FirstOccurrences(aspects),
              map |-> [x \in {aspects[a] : a \in 1..Len(aspects)} |->
                         [y \in {doc_ids[d] : d \in 1..Len(doc_ids)} |->
                             vis[LastIndex(aspects, x)][LastIndex(doc_ids, y)].out.val]]],
     calls |-> Flatten([a \in 1..Len(aspects) |->
                          Flatten([d \in 1..Len(doc_ids) |-> vis[a][d].calls])])]

\* compare_documents: the value returned and the calls made
compare_documents(docs, doc_ids, comparison_aspects, oracle) ==
    compare_results(doc_ids, aspects_of(comparison_aspects),
        compare_visits(docs, doc_ids, aspects_of(comparison_aspects), oracle))

\* the context lines of one document: one per aspect that has an entry for it
RECURSIVE doc_context(_, _, _)
doc_context(comparison_data, doc_id, a) ==
    IF a > Len(comparison_data.keys) THEN <<>>
    ELSE LET aspect == comparison_data.keys[a]
             candidates == comparison_data.map[aspect]
         IN  (IF doc_id \in DOMAIN candidates
              THEN <<"**", aspect, ":**">> \o candidates[doc_id]
              ELSE <<>>)
             \o doc_context(comparison_data, doc_id, a + 1)

\* a slip: the doc ids absent from the documents map are not skipped
RECURSIVE recommendation_context_all(_, _, _, _)
recommendation_context_all(docs, doc_ids, comparison_data, d) ==
    IF d > Len(doc_ids) THEN <<>>
    ELSE <<"### Document: ">>
         \o (IF doc_ids[d] \in DOMAIN docs THEN docs[doc_ids[d]].filename
             ELSE doc_ids[d])
         \o doc_context(comparison_data, doc_ids[d], 1)
         \o recommendation_context_all(docs, doc_ids, comparison_data, d + 1)

\* the context of get_recommendation, over doc_ids from position d
RECURSIVE recommendation_context(_, _, _, _)
recommendation_context(docs, doc_ids, comparison_data, d) ==
    IF d > Len(doc_ids) THEN <<>>
    ELSE (IF doc_ids[d] \notin DOMAIN docs THEN <<>>
          ELSE <<"### Document: ">> \o docs[doc_ids[d]].filename
               \o doc_context(comparison_data, doc_ids[d], 1))
         \o recommendation_context(docs, doc_ids, comparison_data, d + 1)

recommendation_prompt(context, job_role) ==
    <<"Based on the document comparison below, provide a comprehensive recommendation">>
    \o (IF job_role # <<>> THEN <<" for the role of ">> \o job_role ELSE <<>>)
    \o context \o <<"Provide your analysis in this format:">>

\* get_recommendation once comparison_data is there; finalBad is whether
\* the model call fails
recommend(docs, doc_ids, job_role, finalBad, compared) ==
    LET context == <<"Document Comparison Analysis:">>
                   \o recommendation_context(docs, doc_ids, compared.val, 1)
        prompt == recommendation_prompt(context, job_role)
        response == groq_create(IF finalBad THEN <<"raise">> ELSE llm_reply(prompt))
        content == first_choice_content(response.val)
        asked == Event("llm", <<"groq">>, prompt, 0,
                       IF response.raised THEN response ELSE content)
        result == IF except_Exception(response)
                  THEN Return(<<"Error generating recommendation: ">> \o response.exc)
                  ELSE IF response.raised THEN response
                  ELSE Return(Strip(content.val))
    IN  IF compared.raised
        THEN [raised |-> TRUE, val |-> <<>>, calls |-> compared.calls]
        ELSE [raised |-> result.raised, val |-> result.val,
              calls |-> Append(compared.calls, asked)]

\* get_recommendation
get_recommendation(docs, doc_ids, job_role, oracle) ==
    recommend(docs, doc_ids, job_role, oracle.finalBad,
              compare_documents(docs, doc_ids, PyNone, oracle))

\* the texts json.loads accepts, and what it makes of them
JsonTexts == {"{json}"}
json_loads(text) ==
    IF Len(Strip(text)) = 1 /\ Strip(text)[1] \in JsonTexts
    THEN Return([name |-> <<"N/A">>, skills |-> <<>>, source |-> Strip(text)])
    ELSE Raise("JSONDecodeError", <<"Expecting value">>)

\* the position of the first tok in text, 0 when there is none
RECURSIVE IndexOf(_, _, _)
IndexOf(text, tok, i) ==
    IF i > Len(text) THEN 0 ELSE IF text[i] = tok THEN i ELSE IndexOf(text, tok, i + 1)

\* the token standing for three backticks
triple_backtick == "(fence)"

\* "Clean markdown code blocks" of extract_structured_data
clean_code_block(result) ==
    IF result # <<>> /\ Head(result) = triple_backtick
    THEN LET opened == Tail(result)
             unlabelled == IF opened # <<>> /\ Head(opened) = "json"
                           THEN Strip(Tail(opened)) ELSE opened
         IN  IF IndexOf(unlabelled, triple_backtick, 1) > 0
             THEN Strip(SubSeq(unlabelled, 1, IndexOf(unlabelled, triple_backtick, 1) - 1))
             ELSE unlabelled
    ELSE result

extract_prompt(text) ==
    <<"Extract structured information from this document.">> \o text
    \o <<"Respond with ONLY valid JSON, no other text.">>

\* extract_structured_data from "doc_info = self.documents[doc_id]" on, text
\* being total_text[:4000]; llmOutcome is "raise" or the model's content
extract_from_text(text, llmOutcome) ==
    LET prompt == extract_prompt(text)
        response == groq_create(llmOutcome)
        content == choices_message_content(response.val)
        result == Strip(content.val)
        parsed == json_loads(clean_code_block(result))
        asked == Event("llm", <<"groq">>, prompt, 0, response)
        body == IF response.raised THEN [out |-> response, bound |-> FALSE]
                ELSE IF content.raised THEN [out |-> content, bound |-> FALSE]
                ELSE [out |-> parsed, bound |-> TRUE]
        value ==
            IF except_JSONDecodeError(body.out)
            THEN Return([error |-> <<"Could not parse structured data">>,
                         raw_response |-> IF body.bound THEN Slice(result, 200)
                                          ELSE <<"No response">>])
            ELSE IF except_Exception(body.out)
            THEN Return([error |-> <<"Extraction failed: ">> \o body.out.exc])
            ELSE body.out
    IN  [raised |-> value.raised, val |-> value.val, calls |-> <<asked>>]

\* a slip: the test for an unknown doc id is missing and an unknown document
\* counts as one without text
extract_structured_data_unguarded(docs, doc_id, llmOutcome) ==
    extract_from_text(IF doc_id \in DOMAIN docs
                      THEN Slice(docs[doc_id].total_text, 4000) ELSE <<>>,
                      llmOutcome)

\* extract_structured_data
extract_structured_data(docs, doc_id, llmOutcome) ==
    IF doc_id \notin DOMAIN docs
    THEN [raised |-> FALSE, val |-> [error |-> <<"Document not found">>], calls |-> <<>>]
    ELSE extract_from_text(Slice(docs[doc_id].total_text, 4000), llmOutcome)

\* clear_comparison_data
clear_comparison_data == [val |-> <<"Comparison data cleared">>, documents |-> <<>>]

----------------------------------------------------------------------------
(* ChatRAGModel (app/models/chat_model.py): a RAGModel that keeps, besides  *)
(* the message lists of its parent, a conversation buffer memory for each   *)
(* session.                                                                 *)

\* self.llm: no statement of RAGModel or ChatRAGModel assigns it
llm == Unset

\* reading the attribute name of a ChatRAGModel, value being what it holds
getattr(value, name) ==
    IF value = Unset
    THEN Raise("AttributeError",
               <<"'ChatRAGModel' object has no attribute '", name, "'">>)
    ELSE Return(value)

\* reading an attribute that a Python list does not have
list_getattr(name) ==
    Raise("AttributeError", <<"'list' object has no attribute '", name, "'">>)

\* ConversationBufferMemory(...): a memory that holds no messages
ConversationBufferMemory == [messages |-> <<>>]

\* get_conversation_memory: the memories after the call
get_conversation_memory(memories, session_id) ==
    IF session_id \notin DOMAIN memories
    THEN [t \in DOMAIN memories \cup {session_id} |->
             IF t = session_id THEN ConversationBufferMemory ELSE memories[t]]
    ELSE memories

\* memory.chat_memory.add_user_message(q); memory.chat_memory.add_ai_message(a)
memory_add(memories, session_id, question, answer) ==
    [memories EXCEPT ![session_id].messages =
        @ \o << [type |-> "human", content |-> question],
                [type |-> "ai", content |-> answer] >>]

\* a slip: every memory is emptied
memory_clear_all(memories, session_id) ==
    [t \in DOMAIN memories |-> ConversationBufferMemory]

\* self.conversation_memories[session_id].clear()
memory_clear(memories, session_id) ==
    [memories EXCEPT ![session_id].messages = <<>>]

\* create_enhanced_chat_chain: True, False or the exception, and
\* self.retrieval_chain after the call
create_enhanced_chat_chain(vs, chain) ==
    IF store_ready(vs)
    THEN LET model == getattr(llm, "llm")
         IN  IF model.raised
             THEN [out |-> model, retrieval_chain |-> chain]
             ELSE [out |-> Return(TRUE),
                   retrieval_chain |-> PyObject("RetrievalChain", <<>>)]
    ELSE [out |-> Return(FALSE), retrieval_chain |-> chain]

\* ChatRAGModel.process_document: the value returned and the fields as the
\* call leaves them
ChatRAGModel_process_document(vs, chain, pdf, embedOk) ==
    LET loaded == load_pdf(pdf)
        chunks == loaded.val
        n == ToString(Len(chunks))
        created == create_vector_store(chunks, embedOk)
        made == create_enhanced_chat_chain(created.val, chain)
        body ==
            IF loaded.raised THEN [out |-> loaded, vs |-> vs, chain |-> chain]
            ELSE IF created.raised THEN [out |-> created, vs |-> vs, chain |-> chain]
            ELSE IF made.out.raised
                 THEN [out |-> made.out, vs |-> created.val,
                       chain |-> made.retrieval_chain]
            ELSE IF made.out.val
                 THEN [out |-> Return(<<"Successfully processed document with ", n,
                                        " chunks and enhanced chat capabilities.">>),
                       vs |-> created.val, chain |-> made.retrieval_chain]
            ELSE [out |-> Return(<<"Document processed (", n,
                                   " chunks) but chat chain creation failed.">>),
                  vs |-> created.val, chain |-> made.retrieval_chain]
        result == IF except_Exception(body.out)
                  THEN Return(<<"Error processing document: ">> \o body.out.exc)
                  ELSE body.out
    IN  [raised |-> result.raised, val |-> result.val,
         vector_store |-> body.vs, retrieval_chain |-> body.chain]

\* ask_question_with_memory.  The test of self.retrieval_chain stands before
\* the try, so an exception of it leaves the method; inside the try the
\* message list of the parent is asked for .messages, which no list has, so
\* the statements after it (the chain invoked, the two stores appended to,
\* the search with k = 4) never run.
ask_question_with_memory(chain, memories, histories, question, session_id) ==
    LET chain_read == getattr(chain, "retrieval_chain")
        memories1 == get_conversation_memory(memories, session_id)
        histories1 == get_session_history(histories, session_id)
        custom_history == list_getattr("messages")
    IN  IF chain_read.raised
        THEN [raised |-> TRUE, cls |-> chain_read.cls, exc |-> chain_read.exc,
              val |-> <<>>, conversation_memories |-> memories,
              chat_histories |-> histories]
        ELSE IF is_None(chain_read.val)
        THEN [raised |-> FALSE, cls |-> "", exc |-> <<>>,
              val |-> [answer |-> PleaseUpload, sources |-> <<>>,
                       session_id |-> session_id, memory_used |-> FALSE],
              conversation_memories |-> memories, chat_histories |-> histories]
        ELSE [raised |-> FALSE, cls |-> "", exc |-> <<>>,
              val |-> [answer |-> <<"Error generating answer: ">> \o custom_history.exc,
                       sources |-> <<>>, session_id |-> session_id,
                       memory_used |-> FALSE],
              conversation_memories |-> memories1, chat_histories |-> histories1]

\* get_memory_summary
get_memory_summary(memories, session_id) ==
    IF session_id \in DOMAIN memories
    THEN LET messages == memories[session_id].messages
         IN  [session_id |-> session_id, message_count |-> Len(messages),
              has_memory |-> TRUE,
              last_interaction |-> IF messages # <<>>
                                   THEN [type |-> "str",
                                         items |-> messages[Len(messages)].content,
                                         attrs |-> <<>>]
                                   ELSE PyNone]
    ELSE [session_id |-> session_id, message_count |-> 0, has_memory |-> FALSE,
          last_interaction |-> PyNone]

\* clear_conversation_memory: the string returned and both stores afterwards
clear_conversation_memory(histories, memories, session_id) ==
    LET result == clear_chat_history(histories, session_id)
    IN  IF session_id \in DOMAIN memories
        THEN [val |-> result.val \o <<" Conversation buffer memory also cleared.">>,
              chat_histories |-> result.chat_histories,
              conversation_memories |-> memory_clear(memories, session_id)]
        ELSE [val |-> result.val, chat_histories |-> result.chat_histories,
              conversation_memories |-> memories]

----------------------------------------------------------------------------
(* The state after construction: RAGModel.__init__, the session-state      *)
(* defaults of the script and, for a ChatRAGModel, what its __init__ adds. *)

Init ==
    /\ documents = <<>>
    /\ vector_store = NoStore
    /\ document_stats = {}
    /\ chat_histories = <<>>
    /\ uploaded_files = <<>>
    /\ comparison_files = <<>>
    /\ last_uploaded_files = <<>>
    /\ processing_complete = FALSE
    /\ last_processed_files = <<>>
    /\ comparison_results = PyNone
    /\ structured_data = PyNone
    /\ recommendation = PyNone
    /\ conversation_memories = <<>>
    /\ retrieval_chain = Unset
    /\ ret = [op |-> "init", args |-> <<>>, raised |-> FALSE, val |-> <<>>]
    /\ calls = <<>>

----------------------------------------------------------------------------
(* One action per method of RAGModel, called with arguments and with       *)
(* outcomes of the collaborators drawn from the sets given.                *)

ProcessDocument(paths, pdfs) ==
    \E file_path \in paths, pdf \in pdfs, embedOk \in BOOLEAN :
        \E r \in {process_document(vector_store, document_stats, file_path, pdf, embedOk)} :
            /\ vector_store' = r.vector_store
            /\ document_stats' = r.document_stats
            /\ ret' = [op |-> "process_document",
                       args |-> [file_path |-> file_path, pdf |-> pdf,
                                 embedOk |-> embedOk],
                       raised |-> r.raised, val |-> r.val]
            /\ calls' = <<>>
            /\ UNCHANGED <<documents, chat_histories, uiVars, tabVars, chatVars>>

AskQuestion(questions, sessions, searchOutcomes, llmOutcomes) ==
    \E question \in questions, session_id \in sessions,
       searchOutcome \in searchOutcomes, llmOutcome \in llmOutcomes :
        \E r \in {ask_question(vector_store, document_stats, chat_histories,
                              question, session_id, searchOutcome, llmOutcome)} :
            /\ Len(History(chat_histories, session_id)) < 2 * MaxExchanges
            /\ chat_histories' = r.chat_histories
            /\ ret' = [op |-> "ask_question",
                       args |-> [question |-> question, session_id |-> session_id],
                       raised |-> r.raised, val |-> r.val]
            /\ calls' = r.calls
            /\ UNCHANGED <<documents, vector_store, document_stats, uiVars, tabVars, chatVars>>

GetChatHistory(sessions) ==
    \E session_id \in sessions :
        /\ chat_histories' = get_session_history(chat_histories, session_id)
        /\ ret' = [op |-> "get_chat_history", args |-> [session_id |-> session_id],
                   raised |-> FALSE, val |-> chat_histories'[session_id]]
        /\ calls' = <<>>
        /\ UNCHANGED <<documents, vector_store, document_stats, uiVars, tabVars, chatVars>>

ClearChatHistory(sessions) ==
    \E session_id \in sessions :
        \E r \in {clear_chat_history(chat_histories, session_id)} :
            /\ chat_histories' = r.chat_histories
            /\ ret' = [op |-> "clear_chat_history", args |-> [session_id |-> session_id],
                       raised |-> FALSE, val |-> r.val]
            /\ calls' = <<>>
            /\ UNCHANGED <<documents, vector_store, document_stats, uiVars, tabVars, chatVars>>

ListActiveSessions ==
    /\ ret' = [op |-> "list_active_sessions", args |-> <<>>, raised |-> FALSE,
               val |-> list_active_sessions(chat_histories)]
    /\ calls' = <<>>
    /\ UNCHANGED <<modelVars, uiVars, tabVars, chatVars>>

\* the PDF that belongs to a file name
GoodPdf(path) == IF path = PathOf(<<"a", "_", "b", ".pdf">>) THEN PdfB ELSE PdfA

\* the disks that differ only in the files the call reads
DisksFor(disks, file_paths) ==
    {disk \in disks : \A path \in DOMAIN disk :
        (\A i \in 1..Len(file_paths) : file_paths[i] # path) => disk[path] = GoodPdf(path)}

ProcessMultipleDocuments(pathSeqs, disks) ==
    \E file_paths \in pathSeqs :
        \E disk \in DisksFor(disks, file_paths), embedBad \in 0..Len(file_paths) :
            \E r \in {process_multiple_documents(documents, file_paths, disk, embedBad)} :
                /\ documents' = r.documents
                /\ ret' = [op |-> "process_multiple_documents",
                           args |-> [file_paths |-> file_paths, disk |-> disk,
                                     embedBad |-> embedBad],
                           raised |-> r.raised, val |-> r.val]
                /\ calls' = <<>>
                /\ UNCHANGED <<vector_store, document_stats, chat_histories, uiVars, tabVars, chatVars>>

CompareDocuments(docIdSeqs, aspectChoices, oracles) ==
    \E doc_ids \in docIdSeqs, comparison_aspects \in aspectChoices, oracle \in oracles :
        \E r \in {compare_documents(documents, doc_ids, comparison_aspects, oracle)} :
            /\ ret' = [op |-> "compare_documents",
                       args |-> [doc_ids |-> doc_ids,
                                 comparison_aspects |-> comparison_aspects],
                       raised |-> r.raised, val |-> r.val]
            /\ calls' = r.calls
            /\ UNCHANGED <<modelVars, uiVars, tabVars, chatVars>>

GetRecommendation(docIdSeqs, jobRoles, oracles) ==
    \E doc_ids \in docIdSeqs, job_role \in jobRoles, oracle \in oracles :
        \E r \in {get_recommendation(documents, doc_ids, job_role, oracle)} :
            /\ ret' = [op |-> "get_recommendation",
                       args |-> [doc_ids |-> doc_ids, job_role |-> job_role],
                       raised |-> r.raised, val |-> r.val]
            /\ calls' = r.calls
            /\ UNCHANGED <<modelVars, uiVars, tabVars, chatVars>>

ExtractStructuredData(docIds, llmOutcomes) ==
    \E doc_id \in docIds, llmOutcome \in llmOutcomes :
        \E r \in {extract_structured_data(documents, doc_id, llmOutcome)} :
            /\ ret' = [op |-> "extract_structured_data",
                       args |-> [doc_id |-> doc_id, content |-> llmOutcome],
                       raised |-> r.raised, val |-> r.val]
            /\ calls' = r.calls
            /\ UNCHANGED <<modelVars, uiVars, tabVars, chatVars>>

ClearComparisonData ==
    /\ documents' = clear_comparison_data.documents
    /\ ret' = [op |-> "clear_comparison_data", args |-> <<>>, raised |-> FALSE,
               val |-> clear_comparison_data.val]
    /\ calls' = <<>>
    /\ UNCHANGED <<vector_store, document_stats, chat_histories, uiVars, tabVars, chatVars>>

----------------------------------------------------------------------------
(* The comparison mode of the Streamlit script: one action per widget the  *)
(* user can work.  Each runs the script from its top with that widget set. *)

\* "if len(uploaded_files) > 3"
MaxDocuments == 3

\* the files the user may hold, in the order the uploader lists them
UploadOrder == << <<"a", " ", "b", ".pdf">>, <<"a", "_", "b", ".pdf">>,
                  <<"c", ".pdf">>, <<"d", ".pdf">> >>
UploadPaths == {PathOf(UploadOrder[i]) : i \in 1..Len(UploadOrder)}
Rank(name) == CHOOSE i \in 1..Len(UploadOrder) : UploadOrder[i] = name

\* a slip: the limit is off by one
too_many_off_by_one(files) == Len(files) > MaxDocuments + 1

\* "if len(uploaded_files) > 3"
too_many(files) == Len(files) > MaxDocuments

\* "with open(temp_path, 'wb') as f: f.write(...)" for each file in turn;
\* when writing fails it fails at the first file
write_temp_files(temp_paths, writeOk) ==
    IF writeOk
    THEN [i \in 1..Len(temp_paths) |->
             Event("open", temp_paths[i], <<>>, 0, Return(<<>>))]
    ELSE << Event("open", temp_paths[1], <<>>, 0,
                  Raise("OSError", <<"cannot write">>)) >>

\* the session-state writes shared by "Reset" and "Clear & Upload New"
start_over ==
    /\ comparison_files' = <<>>
    /\ last_uploaded_files' = <<>>
    /\ processing_complete' = FALSE
    /\ last_processed_files' = <<>>
    /\ comparison_results' = PyNone
    /\ structured_data' = PyNone
    /\ recommendation' = PyNone

\* the user adds a file to the comparison_uploader widget
Upload ==
    \E i \in 1..Len(UploadOrder) :
        /\ Len(uploaded_files) < MaxUploads
        /\ \A j \in 1..Len(uploaded_files) : Rank(uploaded_files[j]) < i
        /\ uploaded_files' = Append(uploaded_files, UploadOrder[i])
        /\ ret' = [op |-> "upload", args |-> <<>>,
                   raised |-> FALSE, val |-> <<>>]
        /\ calls' = <<>>
        /\ UNCHANGED <<modelVars, comparison_files, last_uploaded_files,
                       processing_complete, last_processed_files, tabVars,
                       chatVars>>

\* the user takes a file off the widget
Remove ==
    \E i \in 1..Len(uploaded_files) :
        /\ uploaded_files' = SubSeq(uploaded_files, 1, i - 1)
                             \o SubSeq(uploaded_files, i + 1, Len(uploaded_files))
        /\ ret' = [op |-> "remove", args |-> <<>>,
                   raised |-> FALSE, val |-> <<>>]
        /\ calls' = <<>>
        /\ UNCHANGED <<modelVars, comparison_files, last_uploaded_files,
                       processing_complete, last_processed_files, tabVars,
                       chatVars>>

\* "if uploaded_files and len(uploaded_files) >= 2:" and
\* "if not already_processed or files_changed:": the button is drawn
process_btn_drawn ==
    /\ Len(uploaded_files) >= 2
    /\ ~processing_complete \/ uploaded_files # last_uploaded_files

\* the "Process & Compare" button; writeOk is whether the temporary files
\* can be written
ProcessAndCompare(disks, embedBads) ==
    LET current_files == uploaded_files
        files_changed == current_files # last_uploaded_files
        already_processed == processing_complete
        temp_paths == [i \in 1..Len(uploaded_files) |-> PathOf(uploaded_files[i])]
    IN  /\ process_btn_drawn
        /\ UNCHANGED <<vector_store, document_stats, chat_histories, uploaded_files,
                       tabVars, chatVars>>
        /\ IF too_many(uploaded_files)
           THEN /\ ret' = [op |-> "process_btn", args |-> [files |-> current_files],
                           raised |-> FALSE, val |-> <<"Maximum 3 documents allowed">>]
                /\ calls' = <<>>
                /\ UNCHANGED <<documents, comparison_files, last_uploaded_files,
                               processing_complete, last_processed_files>>
           ELSE \E writeOk \in BOOLEAN, disk \in DisksFor(disks, temp_paths),
                   embedBad \in embedBads :
                    \E results \in {process_multiple_documents(documents, temp_paths,
                                                                disk, embedBad)} :
                        /\ last_uploaded_files' = current_files
                        /\ calls' = write_temp_files(temp_paths, writeOk)
                                     \o (IF writeOk
                                         THEN << Event("process_multiple_documents",
                                                       <<"rag_model">>, temp_paths, 0,
                                                       Return(results.val.keys)) >>
                                         ELSE <<>>)
                        /\ IF ~writeOk \/ results.raised
                           THEN /\ ret' = [op |-> "process_btn",
                                           args |-> [files |-> current_files],
                                           raised |-> FALSE,
                                           val |-> <<"Error: ">>]
                                /\ documents' = IF writeOk THEN results.documents
                                                ELSE documents
                                /\ UNCHANGED <<comparison_files, processing_complete,
                                               last_processed_files>>
                           ELSE /\ documents' = results.documents
                                /\ comparison_files' = results.val.keys
                                /\ processing_complete' = TRUE
                                /\ last_processed_files' = current_files
                                /\ ret' = [op |-> "process_btn",
                                           args |-> [files |-> current_files],
                                           raised |-> FALSE,
                                           val |-> <<"Processed ",
                                                     ToString(Len(results.val.keys)),
                                                     " documents successfully!">>]

\* the "Reset" button, drawn when comparison_files is not empty
Reset ==
    /\ comparison_files # <<>>
    /\ start_over
    /\ ret' = [op |-> "reset", args |-> <<>>,
               raised |-> FALSE, val |-> <<>>]
    /\ calls' = <<>>
    /\ UNCHANGED <<modelVars, uploaded_files, chatVars>>

\* the "Clear & Upload New" button
ClearAndUploadNew ==
    /\ Len(uploaded_files) >= 2
    /\ processing_complete /\ uploaded_files = last_uploaded_files
    /\ start_over
    /\ ret' = [op |-> "clear_btn", args |-> <<>>,
               raised |-> FALSE, val |-> <<>>]
    /\ calls' = <<>>
    /\ UNCHANGED <<modelVars, uploaded_files, chatVars>>

\* The tabs are drawn when comparison_files is not empty, and the first tab
\* reads documents[doc_id] for each of its ids before any button of the
\* other tabs is drawn: with an id the map lacks the run stops there.
tabs_drawn ==
    /\ comparison_files # <<>>
    /\ \A i \in 1..Len(comparison_files) : comparison_files[i] \in DOMAIN documents

\* the "Run Comparison Analysis" button
RunComparisonAnalysis(oracles) ==
    \E oracle \in oracles :
        \E r \in {compare_documents(documents, comparison_files, PyNone, oracle)} :
            /\ tabs_drawn
            /\ comparison_results' = r.val
            /\ ret' = [op |-> "compare_btn", args |-> <<>>, raised |-> r.raised,
                       val |-> <<>>]
            /\ calls' = r.calls
            /\ UNCHANGED <<modelVars, uiVars, structured_data, recommendation, chatVars>>

\* the "Get Recommendation" button, with the text of the job role field
GetRecommendationButton(jobRoles, oracles) ==
    \E job_role \in jobRoles, oracle \in oracles :
        \E r \in {get_recommendation(documents, comparison_files, job_role, oracle)} :
            /\ tabs_drawn
            /\ recommendation' = r.val
            /\ ret' = [op |-> "recommend_btn", args |-> [job_role |-> job_role],
                       raised |-> r.raised, val |-> <<>>]
            /\ calls' = r.calls
            /\ UNCHANGED <<modelVars, uiVars, comparison_results, structured_data,
                           chatVars>>

\* the "Generate Visual Analysis" button; contents[i] is what the model
\* call for the i-th document comes back with
GenerateVisualAnalysis(llmOutcomes) ==
    \E contents \in [1..Len(comparison_files) -> llmOutcomes] :
        LET one(i) == extract_structured_data(documents, comparison_files[i], contents[i])
        IN  /\ tabs_drawn
            /\ structured_data' =
                   [keys |-> comparison_files,
                    map |-> [x \in {comparison_files[i] : i \in 1..Len(comparison_files)}
                               |-> one(LastIndex(comparison_files, x)).val]]
            /\ ret' = [op |-> "generate_visuals", args |-> <<>>, raised |-> FALSE,
                       val |-> <<>>]
            /\ calls' = Flatten([i \in 1..Len(comparison_files) |-> one(i).calls])
            /\ UNCHANGED <<modelVars, uiVars, comparison_results, recommendation,
                           chatVars>>

----------------------------------------------------------------------------
(* One action per method of ChatRAGModel, and one for the caller who was   *)
(* handed a memory by get_conversation_memory and writes to it.            *)

ChatProcessDocument(pdfs) ==
    \E pdf \in pdfs, embedOk \in BOOLEAN :
        \E r \in {ChatRAGModel_process_document(vector_store, retrieval_chain,
                                                pdf, embedOk)} :
            /\ vector_store' = r.vector_store
            /\ retrieval_chain' = r.retrieval_chain
            /\ ret' = [op |-> "ChatRAGModel.process_document",
                       args |-> [pdf |-> pdf, embedOk |-> embedOk],
                       raised |-> r.raised, val |-> r.val]
            /\ calls' = <<>>
            /\ UNCHANGED <<documents, document_stats, chat_histories, uiVars,
                           tabVars, conversation_memories>>

AskQuestionWithMemory(questions, sessions) ==
    \E question \in questions, session_id \in sessions :
        \E r \in {ask_question_with_memory(retrieval_chain, conversation_memories,
                                           chat_histories, question, session_id)} :
            /\ conversation_memories' = r.conversation_memories
            /\ chat_histories' = r.chat_histories
            /\ ret' = [op |-> "ask_question_with_memory",
                       args |-> [question |-> question, session_id |-> session_id],
                       raised |-> r.raised,
                       val |-> IF r.raised THEN r.exc ELSE r.val]
            /\ calls' = <<>>
            /\ UNCHANGED <<documents, vector_store, document_stats, uiVars,
                           tabVars, retrieval_chain>>

GetConversationMemory(sessions) ==
    \E session_id \in sessions :
        /\ conversation_memories' =
              get_conversation_memory(conversation_memories, session_id)
        /\ ret' = [op |-> "get_conversation_memory",
                   args |-> [session_id |-> session_id],
                   raised |-> FALSE, val |-> conversation_memories'[session_id]]
        /\ calls' = <<>>
        /\ UNCHANGED <<modelVars, uiVars, tabVars, retrieval_chain>>

\* the caller saves an exchange in a memory it was handed
MemoryAddMessages(sessions, questions, answers) ==
    \E session_id \in sessions \cap DOMAIN conversation_memories,
       question \in questions, answer \in answers :
        /\ Len(conversation_memories[session_id].messages) < 2 * MaxExchanges
        /\ conversation_memories' =
              memory_add(conversation_memories, session_id, question, answer)
        /\ ret' = [op |-> "memory.chat_memory.add",
                   args |-> [session_id |-> session_id],
                   raised |-> FALSE, val |-> <<>>]
        /\ calls' = <<>>
        /\ UNCHANGED <<modelVars, uiVars, tabVars, retrieval_chain>>

GetMemorySummary(sessions) ==
    \E session_id \in sessions :
        /\ ret' = [op |-> "get_memory_summary",
                   args |-> [session_id |-> session_id], raised |-> FALSE,
                   val |-> get_memory_summary(conversation_memories, session_id)]
        /\ calls' = <<>>
        /\ UNCHANGED <<modelVars, uiVars, tabVars, chatVars>>

ClearConversationMemory(sessions) ==
    \E session_id \in sessions :
        \E r \in {clear_conversation_memory(chat_histories, conversation_memories,
                                            session_id)} :
            /\ chat_histories' = r.chat_histories
            /\ conversation_memories' = r.conversation_memories
            /\ ret' = [op |-> "clear_conversation_memory",
                       args |-> [session_id |-> session_id],
                       raised |-> FALSE, val |-> r.val]
            /\ calls' = <<>>
            /\ UNCHANGED <<documents, vector_store, document_stats, uiVars,
                           tabVars, retrieval_chain>>

----------------------------------------------------------------------------
(* Single-document question answering. *)

Questions == { <<"what is it about">>, <<" ", "How Many Words", "\n">> }
LLMOutcomes == { <<"raise">>, <<"T">>, <<"Answer:", " ", "T", "\n">> }
QAPaths == {PathOf(<<"c", ".pdf">>)}
QAPdfs == Pdfs \ {PdfA}

NextQA ==
    \/ ProcessDocument(QAPaths, QAPdfs)
    \/ AskQuestion(Questions, Sessions, SearchOutcomes, LLMOutcomes)
    \/ GetChatHistory(Sessions)
    \/ ClearChatHistory(Sessions)
    \/ ListActiveSessions

SpecQA == Init /\ [][NextQA]_vars

----------------------------------------------------------------------------
(* Document comparison. *)

\* the sequences over S of length at most n, and those without repetitions
SeqsUpTo(S, n) == UNION {[1..k -> S] : k \in 0..n}
DistinctSeqsUpTo(S, n) ==
    {q \in SeqsUpTo(S, n) : \A i, j \in 1..Len(q) : i # j => q[i] # q[j]}

\* what lies behind each path: the file is unreadable, or it is the PDF
\* that belongs to the name
Disks == {disk \in [Paths -> {PdfScanned, PdfA, PdfB}] :
             \A path \in Paths : disk[path] \in {PdfScanned, GoodPdf(path)}}

DocIds == {doc_id_of(path) : path \in Paths} \cup { <<"ghost">> }

AspectChoices == {PyNone, PyList(<<>>), PyList(<<"x", "y">>)}

\* which search or which model call of a comparison fails, counted over the
\* (aspect, stored document) pairs in the order met; 0: none
OneBad(finals) ==
    {oracle \in [searchBad : 0..MaxBad, llmBad : 0..MaxBad, finalBad : finals] :
        oracle.searchBad = 0 \/ oracle.llmBad = 0}
CompareOracles == OneBad({FALSE})

\* the doc ids of a call: some of a_b, c and ghost, in this order or reversed
DocIdOrder == << <<"ghost">>, <<"a", "_", "b">>, <<"c">> >>
DocIdSeqs ==
    LET ahead == {q \in SeqsUpTo(DocIds, MaxDocIds) :
                     \A i, j \in 1..Len(q) : i < j =>
                         \E m, n \in 1..Len(DocIdOrder) :
                             m < n /\ DocIdOrder[m] = q[i] /\ DocIdOrder[n] = q[j]}
    IN  ahead \cup {Reverse(q) : q \in {r \in ahead : Len(r) = 2 /\ r[1] = <<"ghost">>}}

\* the contents a model call of extract_structured_data may come back with
ExtractOutcomes ==
    { <<"raise">>,
      <<"{json}">>,
      <<triple_backtick, "json", "\n", "{json}", "\n", triple_backtick>>,
      <<triple_backtick, "\n", "{json}", "\n", triple_backtick>>,
      <<"I am sorry">> }

NextProcess ==
    \/ ProcessMultipleDocuments(DistinctSeqsUpTo(Paths, MaxPaths), Disks)
    \/ ClearComparisonData

SpecProcess == Init /\ [][NextProcess]_vars

AllReadable == [path \in Paths |-> GoodPdf(path)]
FewPathSeqs == { <<PathOf(<<"c", ".pdf">>)>>,
                 <<PathOf(<<"a", " ", "b", ".pdf">>), PathOf(<<"c", ".pdf">>)>> }

NextCompare ==
    \/ ProcessMultipleDocuments(FewPathSeqs, {AllReadable})
    \/ CompareDocuments(DocIdSeqs, AspectChoices, CompareOracles)
    \/ ExtractStructuredData(DocIds, ExtractOutcomes)
    \/ ClearComparisonData

SpecCompare == Init /\ [][NextCompare]_vars

----------------------------------------------------------------------------
(* The comparison mode as the user works it. *)

\* every uploaded file readable, or c.pdf a scan without text
UploadDisks ==
    {disk \in [UploadPaths -> {PdfScanned, PdfA, PdfB}] :
        \A path \in UploadPaths :
            disk[path] \in (IF path = PathOf(<<"c", ".pdf">>) THEN {PdfScanned} ELSE {})
                           \cup {GoodPdf(path)}}

NextApp ==
    \/ Upload
    \/ Remove
    \/ ProcessAndCompare(UploadDisks, {0})
    \/ Reset
    \/ ClearAndUploadNew

SpecApp == Init /\ [][NextApp]_vars

----------------------------------------------------------------------------
(* The comparison mode with its tabs, for two files of the user. *)

TabUploads == { <<>>, << <<"c", ".pdf">> >>, << <<"d", ".pdf">> >>,
                << <<"c", ".pdf">>, <<"d", ".pdf">> >> }
NoneBad == {[searchBad |-> 0, llmBad |-> 0, finalBad |-> FALSE]}

NextTabs ==
    \/ Upload /\ uploaded_files' \in TabUploads
    \/ Remove
    \/ ProcessAndCompare(UploadDisks, {0})
    \/ RunComparisonAnalysis(CompareOracles)
    \/ GetRecommendationButton({<<>>}, NoneBad)
    \/ GenerateVisualAnalysis({<<"raise">>, <<"{json}">>})
    \/ Reset
    \/ ClearAndUploadNew

SpecTabs == Init /\ [][NextTabs]_vars

----------------------------------------------------------------------------
(* The operations of RAGModel together, each with its failures. *)

ApiPathSeqs == FewPathSeqs
                 \cup { <<PathOf(<<"a", " ", "b", ".pdf">>),
                          PathOf(<<"a", "_", "b", ".pdf">>)>> }
ApiDocIdSeqs == { <<<<"c">>, <<"ghost">>>> }
ApiOracles == OneBad(BOOLEAN)
JobRoles == { <<>>, <<"engineer">> }

Next ==
    \/ ProcessDocument(QAPaths, {PdfMissing, PdfB})
    \/ AskQuestion({<<"what is it about">>}, {"s1"}, {"raise", "fwd"},
                   {<<"raise">>, <<"T">>})
    \/ ProcessMultipleDocuments(ApiPathSeqs, Disks)
    \/ CompareDocuments(ApiDocIdSeqs, {PyList(<<"x">>)}, CompareOracles)
    \/ GetRecommendation(ApiDocIdSeqs, JobRoles, ApiOracles)
    \/ ExtractStructuredData({<<"c">>, <<"ghost">>}, {<<"raise">>, <<"{json}">>})
    \/ ClearComparisonData

Spec == Init /\ [][Next]_vars

----------------------------------------------------------------------------
(* A ChatRAGModel: its own methods and the ask_question it inherits. *)

ChatPdfs == {PdfMissing, PdfA}
ChatQuestions == { <<" ", "How Many Words", "\n">> }

NextChat ==
    \/ ChatProcessDocument(ChatPdfs)
    \/ AskQuestionWithMemory(ChatQuestions, Sessions)
    \/ AskQuestion(ChatQuestions, Sessions, {"fwd"}, {<<"T">>})
    \/ GetConversationMemory(Sessions)
    \/ MemoryAddMessages(Sessions, ChatQuestions, {<<"T">>})
    \/ GetMemorySummary(Sessions)
    \/ ClearConversationMemory(Sessions)

SpecChat == Init /\ [][NextChat]_vars

----------------------------------------------------------------------------
(* Properties of single-document question answering, checked under SpecQA. *)

IsPrefix(s, t) == Len(s) <= Len(t) /\ SubSeq(t, 1, Len(s)) = s

CallsOf(trace, fn) == {i \in 1..Len(trace) : trace[i].fn = fn}

\* C1: chat history is session-scoped.  Every ask_question(q, s) call,
\* whether it answers, answers from the statistics or fails, leaves the
\* message list of every other session t as it was (a session without a list
\* still has none), and the list of s can only grow.
C1_SessionScoped ==
    [][ret'.op = "ask_question" =>
          LET s == ret'.args.session_id
          IN  /\ \A t \in Sessions \ {s} :
                    /\ (t \in DOMAIN chat_histories') = (t \in DOMAIN chat_histories)
                    /\ History(chat_histories', t) = History(chat_histories, t)
              /\ IsPrefix(History(chat_histories, s), History(chat_histories', s))]_vars

\* a question was just answered in one session while another session holds
\* messages of its own
C1_Witness ==
    /\ ret.op = "ask_question"
    /\ ret.val.answer = <<"T">>
    /\ Len(History(chat_histories, ret.args.session_id)) >= 2
    /\ \E t \in Sessions \ {ret.args.session_id} : Len(History(chat_histories, t)) >= 2

\* C3: question answering is linear, with no retries.  An ask_question call
\* on a question that is no statistics question, with the vector store
\* initialised, makes exactly one similarity search (the question, k = 6) and
\* makes it first; then at most one model call, and none when the search
\* failed; the history is appended to once, after the model call has
\* returned, and not at all when it failed; and the prompt carries the
\* search results as the search returned them, in that order.
C3_LinearNoRetries ==
    [][(ret'.op = "ask_question" /\ store_ready(vector_store)
            /\ ~IsStatsQuestion(ret'.args.question)) =>
          LET q == ret'.args.question
              searches == CallsOf(calls', "similarity_search")
              asks == CallsOf(calls', "llm")
              appends == CallsOf(calls', "history_append")
          IN  /\ calls' # <<>>
              /\ searches = {1}
              /\ calls'[1].k = 6 /\ calls'[1].arg = q
              /\ asks \subseteq {2}
              /\ (asks = {2}) = calls'[1].ok
              /\ asks = {2} =>
                    calls'[2].arg = <<"Context:">> \o Join(calls'[1].out, <<"\n\n">>)
                                    \o <<"Question: ">> \o q \o <<"Answer:">>
              /\ appends \subseteq {3}
              /\ (appends = {3}) = (asks = {2} /\ calls'[2].ok)
              /\ (chat_histories' # chat_histories) = (appends = {3})]_vars

\* a question went through search, model call and history update, the search
\* having returned a chunk twice
C3_Witness ==
    /\ ret.op = "ask_question"
    /\ ~IsStatsQuestion(ret.args.question)
    /\ Len(calls) = 3
    /\ calls[2].ok
    /\ \E i, j \in 1..Len(calls[1].out) : i # j /\ calls[1].out[i] = calls[1].out[j]

\* C5: ask_question with no document indexed (the vector store not
\* initialised) returns 'Please upload and process a document first.' with no
\* sources and the session id given, makes no search and no model call, and
\* leaves the session histories as they were, creating none.
C5_NoDocumentYet ==
    [][(ret'.op = "ask_question" /\ ~vector_store.init) =>
          /\ ret'.val = [answer |-> PleaseUpload, sources |-> <<>>,
                         session_id |-> ret'.args.session_id]
          /\ ~ret'.raised
          /\ calls' = <<>>
          /\ chat_histories' = chat_histories]_vars

\* a question was asked in a session that has no history, before any
\* document was indexed, while another session exists
C5_Witness ==
    /\ ret.op = "ask_question"
    /\ ~vector_store.init
    /\ ret.val.answer = PleaseUpload
    /\ ret.args.session_id \notin DOMAIN chat_histories
    /\ DOMAIN chat_histories # {}

\* C10: clear_chat_history(s) on a known session empties its history, keeps
\* s among the active sessions, leaves every other session as it was and
\* returns 'Chat history cleared for session: s'; on an unknown session it
\* creates none, changes nothing and returns 'No chat history found for
\* session: s'.
C10_ClearChatHistory ==
    [][ret'.op = "clear_chat_history" =>
          LET s == ret'.args.session_id
          IN  IF s \in DOMAIN chat_histories
              THEN /\ s \in list_active_sessions(chat_histories')
                   /\ chat_histories'[s] = <<>>
                   /\ DOMAIN chat_histories' = DOMAIN chat_histories
                   /\ \A t \in DOMAIN chat_histories \ {s} :
                         chat_histories'[t] = chat_histories[t]
                   /\ ret'.val = <<"Chat history cleared for session: ", s>>
              ELSE /\ chat_histories' = chat_histories
                   /\ ret'.val = <<"No chat history found for session: ", s>>]_vars

\* a session was just cleared while another one holds messages
C10_Witness ==
    /\ ret.op = "clear_chat_history"
    /\ ret.val[1] = "Chat history cleared for session: "
    /\ chat_histories[ret.args.session_id] = <<>>
    /\ \E t \in DOMAIN chat_histories : chat_histories[t] # <<>>

----------------------------------------------------------------------------
(* Properties of the comparison methods. *)

\* the doc ids of a call that the documents map holds, in the order given
StoredIds(docs, doc_ids) ==
    LET Held(doc_id) == doc_id \in DOMAIN docs IN SelectSeq(doc_ids, Held)

\* the positions of the similarity searches of a trace, in order
SearchPositions(trace) ==
    LET IsSearch(i) == trace[i].fn = "similarity_search"
    IN  SelectSeq([i \in 1..Len(trace) |-> i], IsSearch)

\* what the search at position i of a trace and the model call after it
\* come to: the message of the one that failed, else the model's text
EntryOf(trace, i) ==
    IF ~trace[i].ok THEN <<"Error: ">> \o trace[i].exc
    ELSE IF ~trace[i + 1].ok THEN <<"Error: ">> \o trace[i + 1].exc
    ELSE Strip(trace[i + 1].out)

\* every model call of the trace follows a search that succeeded, and every
\* such search is followed by a model call
SearchThenAsk(trace) ==
    CallsOf(trace, "llm")
        = {i + 1 : i \in {j \in CallsOf(trace, "similarity_search") : trace[j].ok}}

SixOperations == {"process_document", "process_multiple_documents", "ask_question",
                  "compare_documents", "get_recommendation", "extract_structured_data"}

C7_CompareShape ==
    [][ret'.op = "compare_documents" =>
          LET doc_ids == ret'.args.doc_ids
              given == ret'.args.comparison_aspects
              aspects == IF given = PyNone \/ given = PyList(<<>>)
                         THEN DefaultAspects ELSE given.items
              stored == StoredIds(documents, doc_ids)
              results == ret'.val
              searches == SearchPositions(calls')
          IN  /\ ~ret'.raised
              /\ results.keys = aspects
              /\ DOMAIN results.map = {aspects[a] : a \in 1..Len(aspects)}
              /\ \A a \in 1..Len(aspects) :
                    /\ DOMAIN results.map[aspects[a]]
                           = {doc_ids[d] : d \in 1..Len(doc_ids)}
                    /\ \A d \in 1..Len(doc_ids) :
                          doc_ids[d] \notin DOMAIN documents =>
                              results.map[aspects[a]][doc_ids[d]]
                                  = <<"Document not found">>
              /\ Len(searches) = Len(aspects) * Len(stored)
              /\ SearchThenAsk(calls')
              /\ \A a \in 1..Len(aspects), j \in 1..Len(stored) :
                    LET i == searches[(a - 1) * Len(stored) + j]
                    IN  /\ calls'[i].target = <<documents[stored[j]].filename>>
                        /\ calls'[i].arg = <<"information about ", aspects[a]>>
                        /\ calls'[i].k = 3
                        /\ results.map[aspects[a]][stored[j]] = EntryOf(calls', i)
              /\ documents' = documents]_vars

\* a comparison over the default aspects of a stored document and a doc id
\* the map does not hold, in which one call failed and another returned text
C7_Witness ==
    /\ ret.op = "compare_documents"
    /\ ret.args.comparison_aspects = PyList(<<>>)
    /\ Len(ret.val.keys) = 6
    /\ \E d \in 1..Len(ret.args.doc_ids) : ret.args.doc_ids[d] \notin DOMAIN documents
    /\ \E a \in DOMAIN ret.val.map, x \in DOMAIN documents :
          /\ x \in DOMAIN ret.val.map[a]
          /\ Head(ret.val.map[a][x]) = "Error: "
    /\ \E a \in DOMAIN ret.val.map, x \in DOMAIN documents :
          /\ x \in DOMAIN ret.val.map[a]
          /\ Head(ret.val.map[a][x]) = "re:"

\* C9: get_recommendation(doc_ids, job_role) first completes the comparison
\* of doc_ids over the six default aspects (one search per aspect and stored
\* document, each followed by its model call unless it failed), then makes
\* exactly one more model call.  The context of that call holds, for each doc
\* id the documents map holds, the document's file name and its result for
\* each of the six aspects, and holds nothing for the doc ids absent from the
\* map.  It returns the model's text, stripped, or "Error generating
\* recommendation: ..." when that last call fails, and changes neither the
\* documents map nor any chat history.
C9_Recommendation ==
    [][ret'.op = "get_recommendation" =>
          LET doc_ids == ret'.args.doc_ids
              stored == StoredIds(documents, doc_ids)
              n == Len(calls')
              compared == SubSeq(calls', 1, n - 1)
              searches == SearchPositions(compared)
              entry(a, j) == EntryOf(compared, searches[(a - 1) * Len(stored) + j])
              context ==
                  <<"Document Comparison Analysis:">>
                  \o Flatten([j \in 1..Len(stored) |->
                        <<"### Document: ">> \o documents[stored[j]].filename
                        \o Flatten([a \in 1..Len(DefaultAspects) |->
                              <<"**", DefaultAspects[a], ":**">> \o entry(a, j)])])
          IN  /\ n >= 1
              /\ calls'[n].fn = "llm"
              /\ Len(searches) = Len(DefaultAspects) * Len(stored)
              /\ SearchThenAsk(compared)
              /\ \A a \in 1..Len(DefaultAspects), j \in 1..Len(stored) :
                    LET i == searches[(a - 1) * Len(stored) + j]
                    IN  /\ compared[i].target = <<documents[stored[j]].filename>>
                        /\ compared[i].arg = <<"information about ", DefaultAspects[a]>>
              /\ calls'[n].arg = recommendation_prompt(context, ret'.args.job_role)
              /\ ~ret'.raised
              /\ ret'.val = IF calls'[n].ok THEN Strip(calls'[n].out)
                            ELSE <<"Error generating recommendation: ">> \o calls'[n].exc
              /\ documents' = documents
              /\ chat_histories' = chat_histories]_vars

\* a recommendation was made over a stored document and a doc id the map
\* does not hold, every call succeeding, while a session held messages
C9_Witness ==
    /\ ret.op = "get_recommendation"
    /\ \E d \in 1..Len(ret.args.doc_ids) : ret.args.doc_ids[d] \in DOMAIN documents
    /\ \E d \in 1..Len(ret.args.doc_ids) : ret.args.doc_ids[d] \notin DOMAIN documents
    /\ Len(calls) = 2 * Len(DefaultAspects) + 1
    /\ \A i \in 1..Len(calls) : calls[i].ok
    /\ Head(ret.val) = "re:"
    /\ \E s \in DOMAIN chat_histories : chat_histories[s] # <<>>

\* C2: the list of documents under comparison is empty or holds exactly 2 or
\* exactly 3 doc ids, one per uploaded file: after "Process & Compare" has
\* processed the files, comparison_files is the list of their doc ids.
C2_TwoOrThreeDocIds ==
    /\ Len(comparison_files) \in {0, 2, 3}
    /\ (ret.op = "process_btn" /\ Head(ret.val) = "Processed ")
          => comparison_files = [i \in 1..Len(last_uploaded_files) |->
                                    doc_id_of(PathOf(last_uploaded_files[i]))]

\* C6: process_multiple_documents isolates failures per file.  Every file
\* of the call has a result under its doc id: status "error" when its
\* loading or its indexing failed, status "success" otherwise, whatever
\* became of the files before it; and each doc id whose status is "success"
\* has an entry in the documents map with the stats the result reports.
C6_FailuresIsolated ==
    ret.op = "process_multiple_documents" =>
        LET file_paths == ret.args.file_paths
            failed(i) == \/ load_pdf(ret.args.disk[file_paths[i]]).raised
                         \/ i = ret.args.embedBad
            results == ret.val
        IN  /\ ~ret.raised
            /\ \A i \in 1..Len(file_paths) :
                  /\ doc_id_of(file_paths[i]) \in DOMAIN results.map
                  /\ results.map[doc_id_of(file_paths[i])].status
                         = IF failed(i) THEN "error" ELSE "success"
            /\ \A doc_id \in DOMAIN results.map :
                  results.map[doc_id].status = "success" =>
                      /\ doc_id \in DOMAIN documents
                      /\ documents[doc_id].stats = results.map[doc_id].stats

\* the contents that are valid JSON, bare or in a fence
ValidJsonContents ==
    { <<"{json}">>,
      <<triple_backtick, "json", "\n", "{json}", "\n", triple_backtick>>,
      <<triple_backtick, "\n", "{json}", "\n", triple_backtick>> }

\* C8: for a doc id the documents map holds, when the model call succeeds
\* and the content of its first choice is valid JSON, bare or wrapped in a
\* fence, extract_structured_data returns the parsed JSON object.
C8_ParsedJson ==
    (/\ ret.op = "extract_structured_data"
     /\ ret.args.doc_id \in DOMAIN documents
     /\ ret.args.content \in ValidJsonContents)
        => /\ ~ret.raised
           /\ ret.val = json_loads(<<"{json}">>).val

\* C18: extract_structured_data for a doc id that the documents map does not
\* hold returns {'error': 'Document not found'}, makes no model call and
\* leaves the documents map as it was.
C18_DocumentNotFound ==
    [][(ret'.op = "extract_structured_data"
            /\ ret'.args.doc_id \notin DOMAIN documents) =>
          /\ ~ret'.raised
          /\ ret'.val = [error |-> <<"Document not found">>]
          /\ calls' = <<>>
          /\ documents' = documents]_vars

\* the data of a document the map does not hold was asked for while the map
\* holds other documents
C18_Witness ==
    /\ ret.op = "extract_structured_data"
    /\ ret.args.doc_id \notin DOMAIN documents
    /\ documents # <<>>
    /\ ret.val = [error |-> <<"Document not found">>]

----------------------------------------------------------------------------
(* Properties of the comparison mode of the script. *)

\* C11: pressing "Process & Compare" with more than 3 uploaded files reports
\* "Maximum 3 documents allowed" and changes nothing: no temporary file is
\* written, process_multiple_documents is not called, and comparison_files,
\* last_uploaded_files, processing_complete and the documents map keep their
\* values.
C11_TooManyFiles ==
    [][(ret'.op = "process_btn" /\ Len(uploaded_files) > 3) =>
          /\ ret'.val = <<"Maximum 3 documents allowed">>
          /\ calls' = <<>>
          /\ documents' = documents
          /\ comparison_files' = comparison_files
          /\ last_uploaded_files' = last_uploaded_files
          /\ processing_complete' = processing_complete]_vars

\* the button was pressed with four files in the uploader after three of
\* them had been processed
C11_Witness ==
    /\ ret.op = "process_btn"
    /\ ret.val = <<"Maximum 3 documents allowed">>
    /\ Len(uploaded_files) = 4
    /\ Len(last_uploaded_files) = 3
    /\ processing_complete
    /\ documents # <<>>

\* C12: "Reset" and "Clear & Upload New" clear all and start over.
\* Afterwards comparison_files and last_uploaded_files are empty,
\* comparison_results, structured_data and recommendation are None,
\* processing_complete is False, the documents map holds nothing any more
\* for the doc ids that were under comparison, and the single-document state
\* (chat histories, vector store, document statistics) is as it was.
C12_StartOver ==
    [][ret'.op \in {"reset", "clear_btn"} =>
          /\ comparison_files' = <<>>
          /\ last_uploaded_files' = <<>>
          /\ comparison_results' = PyNone
          /\ structured_data' = PyNone
          /\ recommendation' = PyNone
          /\ processing_complete' = FALSE
          /\ \A i \in 1..Len(comparison_files) :
                comparison_files[i] \notin DOMAIN documents'
          /\ chat_histories' = chat_histories
          /\ vector_store' = vector_store
          /\ document_stats' = document_stats]_vars


\* C13: the "Process & Compare" button is drawn exactly when at least two
\* files are uploaded and either processing is not complete or the uploaded
\* names differ from the names of the last run that completed.
C13_ProcessOffered ==
    process_btn_drawn <=>
        /\ Len(uploaded_files) >= 2
        /\ ~processing_complete \/ uploaded_files # last_processed_files


----------------------------------------------------------------------------
(* Statistics questions, checked under SpecQA. *)

\* the question holds one of the statistics keywords, in whatever case
StatsAsked(question) ==
    \E i \in 1..Len(question) :
        question[i] \in {"how many words", "How Many Words", "word count",
                         "total words", "page count", "Page Count",
                         "document size"}

\* C14: statistics questions are answered from the bookkeeping.  With the
\* vector store initialised and document_stats not empty, ask_question on a
\* question holding a statistics keyword (in any case) makes no similarity
\* search and no model call, returns the answer built from document_stats
\* with sources ['Calculated from document'], and appends the question and
\* that answer to the history of the session; with document_stats empty the
\* question goes to retrieval: the first call is the similarity search.
C14_StatsQuestion ==
    [][(ret'.op = "ask_question" /\ vector_store.init
            /\ StatsAsked(ret'.args.question)) =>
          LET q == ret'.args.question
              s == ret'.args.session_id
          IN  IF document_stats # {}
              THEN /\ CallsOf(calls', "similarity_search") = {}
                   /\ CallsOf(calls', "llm") = {}
                   /\ ~ret'.raised
                   /\ ret'.val.sources = << <<"Calculated from document">> >>
                   /\ ret'.val.session_id = s
                   /\ \E st \in document_stats :
                         /\ ret'.val.answer =
                               <<"Document Statistics:", "File: ">> \o st.filename
                               \o <<"Total Words: ">> \o FormatThousands(st.total_words)
                               \o <<"Characters: ">> \o FormatThousands(st.total_characters)
                               \o <<"Chunks: ", ToString(st.total_chunks)>>
                   /\ History(chat_histories', s) =
                         History(chat_histories, s)
                         \o << [role |-> "user", content |-> q],
                               [role |-> "assistant", content |-> ret'.val.answer] >>
              ELSE /\ calls' # <<>>
                   /\ calls'[1].fn = "similarity_search"
                   /\ calls'[1].arg = q]_vars

\* a statistics question typed with capitals was answered from the
\* bookkeeping in a session that already held an exchange
C14_Witness ==
    /\ ret.op = "ask_question"
    /\ vector_store.init /\ document_stats # {}
    /\ ret.args.question = <<" ", "How Many Words", "\n">>
    /\ ret.val.sources = << <<"Calculated from document">> >>
    /\ calls # <<>> /\ CallsOf(calls, "similarity_search") = {}
    /\ Len(History(chat_histories, ret.args.session_id)) >= 4


----------------------------------------------------------------------------
(* Properties of ChatRAGModel, checked under SpecChat. *)

\* C15: ask_question_with_memory on a ChatRAGModel that has processed no
\* document returns 'Please upload and process a document first.' with no
\* sources and memory_used False, without raising, and creates neither a
\* message list nor a conversation memory.
C15_NoChainYet ==
    [][(ret'.op = "ask_question_with_memory" /\ ~vector_store.init) =>
          /\ ~ret'.raised
          /\ ret'.val = [answer |-> PleaseUpload, sources |-> <<>>,
                         session_id |-> ret'.args.session_id,
                         memory_used |-> FALSE]
          /\ chat_histories' = chat_histories
          /\ conversation_memories' = conversation_memories]_vars

\* C16: ChatRAGModel.process_document on a file that loads and whose chunks
\* are embedded builds the retrieval chain and returns 'Successfully
\* processed document with N chunks and enhanced chat capabilities.'; with
\* the chain built, ask_question_with_memory answers with memory_used True
\* and appends the question and the answer to the message list and to the
\* conversation memory of the session.
C16_ChainBuilt ==
    [][/\ (/\ ret'.op = "ChatRAGModel.process_document"
           /\ ~load_pdf(ret'.args.pdf).raised
           /\ ~create_vector_store(load_pdf(ret'.args.pdf).val,
                                   ret'.args.embedOk).raised) =>
              /\ ret'.val = <<"Successfully processed document with ",
                              ToString(Len(load_pdf(ret'.args.pdf).val)),
                              " chunks and enhanced chat capabilities.">>
              /\ retrieval_chain'.type = "RetrievalChain"
       /\ (ret'.op = "ask_question_with_memory"
               /\ retrieval_chain.type = "RetrievalChain") =>
              LET s == ret'.args.session_id
                  q == ret'.args.question
              IN  /\ ~ret'.raised
                  /\ ret'.val.memory_used
                  /\ History(chat_histories', s) =
                        History(chat_histories, s)
                        \o << [role |-> "user", content |-> q],
                              [role |-> "assistant", content |-> ret'.val.answer] >>
                  /\ s \in DOMAIN conversation_memories'
                  /\ Len(conversation_memories'[s].messages) >= 2]_vars

\* C17: clear_conversation_memory(s) leaves the message list of s empty if s
\* had one and the conversation memory of s empty if s had one, creates and
\* removes no list and no memory, and leaves the lists and the memories of
\* every other session as they were.
C17_ClearBoth ==
    [][ret'.op = "clear_conversation_memory" =>
          LET s == ret'.args.session_id
          IN  /\ DOMAIN chat_histories' = DOMAIN chat_histories
              /\ DOMAIN conversation_memories' = DOMAIN conversation_memories
              /\ s \in DOMAIN chat_histories => chat_histories'[s] = <<>>
              /\ s \in DOMAIN conversation_memories =>
                    conversation_memories'[s].messages = <<>>
              /\ \A t \in DOMAIN chat_histories \ {s} :
                    chat_histories'[t] = chat_histories[t]
              /\ \A t \in DOMAIN conversation_memories \ {s} :
                    conversation_memories'[t] = conversation_memories[t]]_vars

\* both stores of a session were just cleared while another session holds
\* messages in its list and in its memory
C17_Witness ==
    /\ ret.op = "clear_conversation_memory"
    /\ ret.val = <<"Chat history cleared for session: ", ret.args.session_id,
                   " Conversation buffer memory also cleared.">>
    /\ chat_histories[ret.args.session_id] = <<>>
    /\ conversation_memories[ret.args.session_id].messages = <<>>
    /\ \E t \in Sessions \ {ret.args.session_id} :
          /\ t \in DOMAIN chat_histories /\ chat_histories[t] # <<>>
          /\ t \in DOMAIN conversation_memories
          /\ conversation_memories[t].messages # <<>>

=============================================================================
